---- MODULE Spec2Model ----
(***************************************************************************)
(* Mini-shogi (5x5) rules engine and alpha-beta search of src/main.go.     *)
(*                                                                         *)
(* A Board is the Go struct: a 5x5 array of Piece, two hand slices and the *)
(* side to move.  A hand is a Go slice: a pointer into the memory `mem` of *)
(* backing arrays and a length; the capacity is the length of the backing  *)
(* array.  Copies, appends and in-place removals are modelled on that      *)
(* memory, so that aliasing between a board and its copy is observable.    *)
(***************************************************************************)
EXTENDS Integers, Sequences, FiniteSets, TLC

\* ---------------------------------------------------------------- PieceType
Empty == 0
King == 1
Gold == 2
Silver == 3
Bishop == 4
Rook == 5
Pawn == 6
PromotedSilver == 7
PromotedBishop == 8
PromotedRook == 9
PromotedPawn == 10

PieceType == Empty..PromotedPawn

\* ------------------------------------------------------------------- Player
None == 0
First == 1
Second == 2

\* The board is BoardSize x BoardSize, rows and columns 0..BoardSize-1.
BoardSize == 5
Rows == 0..(BoardSize - 1)
Cols == 0..(BoardSize - 1)

Piece(t, o) == [Type |-> t, Owner |-> o]

\* The zero value of Piece: an empty cell.
NoPiece == Piece(Empty, None)

Move(fromRow, fromCol, toRow, toCol, isDrop, dropPiece, promote) ==
    [FromRow |-> fromRow, FromCol |-> fromCol, ToRow |-> toRow, ToCol |-> toCol,
     IsDrop |-> isDrop, DropPiece |-> dropPiece, Promote |-> promote]

\* The nil *Move.
NilMove == [IsNil |-> TRUE]

\* --------------------------------------------------------- slices and memory
\* A slice value; ptr = 0 is the address of a zero-capacity slice ([]T{}).
Slice(p, n) == [ptr |-> p, len |-> n]

EmptySlice == Slice(0, 0)

Cap(mem, s) == IF s.ptr = 0 THEN 0 ELSE Len(mem[s.ptr])

\* The elements a `range` over the slice visits, in order.
Elems(mem, s) == IF s.len = 0 THEN << >> ELSE SubSeq(mem[s.ptr], 1, s.len)

\* The address of a newly allocated backing array: one not in use.
NewAddr(mem) ==
    CHOOSE a \in 1..(Cardinality(DOMAIN mem) + 1) :
        /\ a \notin DOMAIN mem
        /\ \A x \in 1..(a - 1) : x \in DOMAIN mem

\* Capacity of the array allocated for n elements of 8 bytes (size classes).
RoundCap(n) == IF n <= 4 THEN n ELSE n + (n % 2)

\* append(s, x): in place when the capacity allows, else into a new array of
\* doubled capacity.  Returns the new memory and the resulting slice.
AppendOne(mem, s, x) ==
    IF s.len < Cap(mem, s)
    THEN [mem |-> [mem EXCEPT ![s.ptr][s.len + 1] = x],
          s   |-> Slice(s.ptr, s.len + 1)]
    ELSE LET a      == NewAddr(mem)
             newcap == IF Cap(mem, s) = 0 THEN 1 ELSE RoundCap(2 * Cap(mem, s))
             arr    == [k \in 1..newcap |->
                          IF k <= s.len THEN mem[s.ptr][k]
                          ELSE IF k = s.len + 1 THEN x ELSE Empty]
         IN  [mem |-> mem @@ (a :> arr), s |-> Slice(a, s.len + 1)]

\* append([]PieceType{}, s...): a slice over a new array holding s's elements;
\* with nothing to append the empty literal itself is returned.
CopySlice(mem, s) ==
    IF s.len = 0
    THEN [mem |-> mem, s |-> EmptySlice]
    ELSE LET a   == NewAddr(mem)
             arr == [k \in 1..RoundCap(s.len) |->
                       IF k <= s.len THEN mem[s.ptr][k] ELSE Empty]
         IN  [mem |-> mem @@ (a :> arr), s |-> Slice(a, s.len)]

\* append(s[:i], s[i+1:]...) for the 1-based position i: the tail is moved one
\* place down inside the same backing array; the last slot keeps its value.
RemoveAt(mem, s, i) ==
    [mem |-> [mem EXCEPT ![s.ptr] =
                [k \in 1..Len(@) |-> IF k >= i /\ k < s.len THEN @[k + 1] ELSE @[k]]],
     s   |-> Slice(s.ptr, s.len - 1)]

Range(s) == {s[i] : i \in 1..Len(s)}

RECURSIVE Flatten(_)
Flatten(ss) == IF ss = << >> THEN << >> ELSE Head(ss) \o Flatten(Tail(ss))

\* The cells in the order of the nested loops `for r ... for c ...`.
CellSeq == [k \in 1..(BoardSize * BoardSize) |->
              << (k - 1) \div BoardSize, (k - 1) % BoardSize >>]

\* ------------------------------------------------------------------ NewBoard
NewBoard ==
    [Cells |->
        [r \in Rows |-> [c \in Cols |->
            CASE r = 0 /\ c = 0 -> Piece(Rook, Second)
              [] r = 0 /\ c = 1 -> Piece(Bishop, Second)
              [] r = 0 /\ c = 2 -> Piece(Silver, Second)
              [] r = 0 /\ c = 3 -> Piece(Gold, Second)
              [] r = 0 /\ c = 4 -> Piece(King, Second)
              [] r = 1 /\ c = 4 -> Piece(Pawn, Second)
              [] r = 4 /\ c = 4 -> Piece(Rook, First)
              [] r = 4 /\ c = 3 -> Piece(Bishop, First)
              [] r = 4 /\ c = 2 -> Piece(Silver, First)
              [] r = 4 /\ c = 1 -> Piece(Gold, First)
              [] r = 4 /\ c = 0 -> Piece(King, First)
              [] r = 3 /\ c = 0 -> Piece(Pawn, First)
              [] OTHER -> NoPiece]],
     FirstHand   |-> EmptySlice,
     SecondHand  |-> EmptySlice,
     CurrentTurn |-> First]

\* ------------------------------------------------------------------- helpers
isInBoard(row, col) == row >= 0 /\ row < BoardSize /\ col >= 0 /\ col < BoardSize

\* isValidMove without the owner test.
isValidMove_BoundsOnly(b, fromRow, fromCol, toRow, toCol) == isInBoard(toRow, toCol)

isValidMove(b, fromRow, fromCol, toRow, toCol) ==
    IF ~isInBoard(toRow, toCol)
    THEN FALSE
    ELSE b.Cells[toRow][toCol].Owner # b.Cells[fromRow][fromCol].Owner

\* canPromote with a zone of two ranks.
canPromote_TwoRanks(player, row) ==
    IF player = First THEN row <= 1 ELSE row >= BoardSize - 2

canPromote(player, row) ==
    IF player = First THEN row <= 0 ELSE row >= BoardSize - 1

getGoldMoves(player) ==
    IF player = First
    THEN << <<-1, -1>>, <<-1, 0>>, <<-1, 1>>, <<0, -1>>, <<0, 1>>, <<1, 0>> >>
    ELSE << <<1, -1>>, <<1, 0>>, <<1, 1>>, <<0, -1>>, <<0, 1>>, <<-1, 0>> >>

getSilverMoves(player) ==
    IF player = First
    THEN << <<-1, -1>>, <<-1, 0>>, <<-1, 1>>, <<1, -1>>, <<1, 1>> >>
    ELSE << <<1, -1>>, <<1, 0>>, <<1, 1>>, <<-1, -1>>, <<-1, 1>> >>

\* hasPawnInColumn answering false for every column.
hasPawnInColumn_Never(b, col, player) == FALSE

hasPawnInColumn(b, col, player) ==
    \E r \in Rows : b.Cells[r][col].Owner = player /\ b.Cells[r][col].Type = Pawn

KingDirs == << <<-1, -1>>, <<-1, 0>>, <<-1, 1>>, <<0, -1>>, <<0, 1>>,
               <<1, -1>>, <<1, 0>>, <<1, 1>> >>

DiagonalDirs == << <<-1, -1>>, <<-1, 1>>, <<1, -1>>, <<1, 1>> >>

\* The PromotedBishop's single orthogonal steps.
HorseStepDirs == << <<-1, 0>>, <<0, -1>>, <<0, 1>>, <<1, 0>> >>

\* The Rook's sliding directions.
OrthogonalDirs == << <<-1, 0>>, <<1, 0>>, <<0, -1>>, <<0, 1>> >>

\* The moves appended for one destination: the promoting move first when the
\* piece may promote there, then the plain move.
MovesTo(row, col, nr, nc, owner, promotable) ==
    IF promotable /\ canPromote(owner, nr)
    THEN << Move(row, col, nr, nc, FALSE, Empty, TRUE),
            Move(row, col, nr, nc, FALSE, Empty, FALSE) >>
    ELSE << Move(row, col, nr, nc, FALSE, Empty, FALSE) >>

\* One step in each direction of dirs (King, Gold, Silver, promoted sliders' extra steps).
StepMoves(b, row, col, dirs, promotable) ==
    Flatten([i \in 1..Len(dirs) |->
        LET nr == row + dirs[i][1]
            nc == col + dirs[i][2]
        IN  IF isValidMove(b, row, col, nr, nc)
            THEN MovesTo(row, col, nr, nc, b.Cells[row][col].Owner, promotable)
            ELSE << >>])

\* SlideDir without the `break` after an enemy piece.
RECURSIVE SlideDir_PassesEnemy(_, _, _, _, _, _)
SlideDir_PassesEnemy(b, row, col, d, i, promotable) ==
    IF i >= BoardSize
    THEN << >>
    ELSE LET nr    == row + d[1] * i
             nc    == col + d[2] * i
             owner == b.Cells[row][col].Owner
         IN  IF ~isInBoard(nr, nc) THEN << >>
             ELSE IF b.Cells[nr][nc].Owner = owner THEN << >>
             ELSE MovesTo(row, col, nr, nc, owner, promotable)
                  \o SlideDir_PassesEnemy(b, row, col, d, i + 1, promotable)

\* The inner loop `for i := 1; i < 5; i++` of a slider along direction d, from step i on.
RECURSIVE SlideDir(_, _, _, _, _, _)
SlideDir(b, row, col, d, i, promotable) ==
    IF i >= BoardSize
    THEN << >>
    ELSE LET nr    == row + d[1] * i
             nc    == col + d[2] * i
             owner == b.Cells[row][col].Owner
         IN  IF ~isInBoard(nr, nc) THEN << >>
             ELSE IF b.Cells[nr][nc].Owner = owner THEN << >>
             ELSE MovesTo(row, col, nr, nc, owner, promotable)
                  \o (IF b.Cells[nr][nc].Owner # None
                      THEN << >>
                      ELSE SlideDir(b, row, col, d, i + 1, promotable))

SlideMoves(b, row, col, dirs, promotable) ==
    Flatten([k \in 1..Len(dirs) |-> SlideDir(b, row, col, dirs[k], 1, promotable)])

PawnMoves(b, row, col) ==
    LET owner == b.Cells[row][col].Owner
        dir   == IF owner = Second THEN 1 ELSE -1
        nr    == row + dir
    IN  IF isValidMove(b, row, col, nr, col)
        THEN MovesTo(row, col, nr, col, owner, TRUE)
        ELSE << >>

GetPossibleMoves(b, row, col) ==
    LET piece == b.Cells[row][col]
        t     == piece.Type
    IN  IF piece.Owner = None \/ piece.Owner # b.CurrentTurn
        THEN << >>
        ELSE CASE t = King -> StepMoves(b, row, col, KingDirs, FALSE)
               [] t \in {Gold, PromotedSilver, PromotedPawn} ->
                      StepMoves(b, row, col, getGoldMoves(piece.Owner), FALSE)
               [] t = Silver ->
                      StepMoves(b, row, col, getSilverMoves(piece.Owner), TRUE)
               [] t = Bishop -> SlideMoves(b, row, col, DiagonalDirs, TRUE)
               [] t = PromotedBishop ->
                      SlideMoves(b, row, col, DiagonalDirs, FALSE)
                      \o StepMoves(b, row, col, HorseStepDirs, FALSE)
               [] t = Rook -> SlideMoves(b, row, col, OrthogonalDirs, TRUE)
               [] t = PromotedRook ->
                      SlideMoves(b, row, col, OrthogonalDirs, FALSE)
                      \o StepMoves(b, row, col, DiagonalDirs, FALSE)
               [] t = Pawn -> PawnMoves(b, row, col)
               [] OTHER -> << >>

\* The hand of the side to move (FirstHand unless CurrentTurn is Second).
MoverHand(b) == IF b.CurrentTurn = Second THEN b.SecondHand ELSE b.FirstHand

\* The keys of the map uniquePieces.
uniquePieces(mem, b) ==
    Range(Elems(mem, MoverHand(b)))

\* `for pType := range uniquePieces` visits the keys in an order the language
\* leaves unspecified: every ordering of the keys is a possible iteration.
KindOrders(mem, b) ==
    LET S == uniquePieces(mem, b)
        n == Cardinality(S)
    IN  {o \in [1..n -> S] : \A i, j \in 1..n : i # j => o[i] # o[j]}

\* DropsOfKind without the farthest-rank test for Pawns.
DropsOfKind_NoRankCheck(b, pType) ==
    Flatten([k \in 1..Len(CellSeq) |->
        LET r == CellSeq[k][1]
            c == CellSeq[k][2]
        IN  IF b.Cells[r][c].Owner # None THEN << >>
            ELSE IF pType = Pawn /\ hasPawnInColumn(b, c, b.CurrentTurn) THEN << >>
            ELSE << Move(-1, -1, r, c, TRUE, pType, FALSE) >>])

DropsOfKind(b, pType) ==
    Flatten([k \in 1..Len(CellSeq) |->
        LET r == CellSeq[k][1]
            c == CellSeq[k][2]
        IN  IF b.Cells[r][c].Owner # None THEN << >>
            ELSE IF pType = Pawn /\ hasPawnInColumn(b, c, b.CurrentTurn) THEN << >>
            ELSE IF pType = Pawn /\ ((b.CurrentTurn = First /\ r = 0)
                                     \/ (b.CurrentTurn = Second /\ r = BoardSize - 1))
                 THEN << >>
            ELSE << Move(-1, -1, r, c, TRUE, pType, FALSE) >>])

\* GetDropMoves, the map being iterated in the order `order`.
GetDropMoves(b, order) ==
    Flatten([k \in 1..Len(order) |-> DropsOfKind(b, order[k])])

BoardMoves(b) ==
    Flatten([k \in 1..Len(CellSeq) |->
        LET r == CellSeq[k][1]
            c == CellSeq[k][2]
        IN  IF b.Cells[r][c].Owner = b.CurrentTurn
            THEN GetPossibleMoves(b, r, c)
            ELSE << >>])

GetAllLegalMoves(b, order) == BoardMoves(b) \o GetDropMoves(b, order)

\* ------------------------------------------------------------------ MakeMove
\* Demote without the switch: the captured kind is kept as it is.
Demote_Identity(capturedType) == capturedType

\* The kind put into the hand for a captured piece: promoted kinds are demoted.
Demote(capturedType) ==
    CASE capturedType = PromotedSilver -> Silver
      [] capturedType = PromotedBishop -> Bishop
      [] capturedType = PromotedRook -> Rook
      [] capturedType = PromotedPawn -> Pawn
      [] OTHER -> capturedType

\* The kind of the moving piece after `if move.Promote { switch piece.Type ... }`.
Promoted(t) ==
    CASE t = Silver -> PromotedSilver
      [] t = Bishop -> PromotedBishop
      [] t = Rook -> PromotedRook
      [] t = Pawn -> PromotedPawn
      [] OTHER -> t

\* The turn change at the end of MakeMove.
NextTurn(turn) == IF turn = First THEN Second ELSE First

\* The 1-based position of the first element of the hand equal to kind, 0 when absent.
FirstIndex(hand, kind) ==
    IF \E i \in 1..Len(hand) : hand[i] = kind
    THEN CHOOSE i \in 1..Len(hand) :
            hand[i] = kind /\ \A j \in 1..(i - 1) : hand[j] # kind
    ELSE 0

\* MakeDrop with the hand left as it was.
MakeDrop_KeepsHand(mem, b, move) ==
    [mem |-> mem,
     b   |-> [b EXCEPT !.Cells[move.ToRow][move.ToCol] =
                          Piece(move.DropPiece, b.CurrentTurn)]]

\* The IsDrop branch: the piece is put on the board and its first occurrence is
\* removed from the mover's hand, inside the hand's backing array.
MakeDrop(mem, b, move) ==
    LET cells == [b.Cells EXCEPT ![move.ToRow][move.ToCol] =
                                    Piece(move.DropPiece, b.CurrentTurn)]
        hand  == MoverHand(b)
        i     == FirstIndex(Elems(mem, hand), move.DropPiece)
        rem   == IF i = 0 THEN [mem |-> mem, s |-> hand] ELSE RemoveAt(mem, hand, i)
    IN  [mem |-> rem.mem,
         b   |-> IF b.CurrentTurn = Second
                 THEN [b EXCEPT !.Cells = cells, !.SecondHand = rem.s]
                 ELSE [b EXCEPT !.Cells = cells, !.FirstHand = rem.s]]

\* MakeBoardMove with the captured piece not put into the hand.
MakeBoardMove_NoHand(mem, b, move) ==
    LET piece == b.Cells[move.FromRow][move.FromCol]
        moved == IF move.Promote THEN Piece(Promoted(piece.Type), piece.Owner)
                 ELSE piece
        cells == [[b.Cells EXCEPT ![move.ToRow][move.ToCol] = moved]
                     EXCEPT ![move.FromRow][move.FromCol] = NoPiece]
    IN  [mem |-> mem, b |-> [b EXCEPT !.Cells = cells]]

\* MakeBoardMove with the source cell not cleared.
MakeBoardMove_KeepSource(mem, b, move) ==
    LET piece    == b.Cells[move.FromRow][move.FromCol]
        captured == b.Cells[move.ToRow][move.ToCol]
        moved    == IF move.Promote THEN Piece(Promoted(piece.Type), piece.Owner)
                    ELSE piece
        cells    == [b.Cells EXCEPT ![move.ToRow][move.ToCol] = moved]
    IN  IF captured.Owner = None
        THEN [mem |-> mem, b |-> [b EXCEPT !.Cells = cells]]
        ELSE IF b.CurrentTurn = First
        THEN LET app == AppendOne(mem, b.FirstHand, Demote(captured.Type))
             IN  [mem |-> app.mem, b |-> [b EXCEPT !.Cells = cells, !.FirstHand = app.s]]
        ELSE LET app == AppendOne(mem, b.SecondHand, Demote(captured.Type))
             IN  [mem |-> app.mem, b |-> [b EXCEPT !.Cells = cells, !.SecondHand = app.s]]

\* MakeBoardMove with the append to the hand outside `if captured.Owner != None`.
MakeBoardMove_AppendsAlways(mem, b, move) ==
    LET piece    == b.Cells[move.FromRow][move.FromCol]
        captured == b.Cells[move.ToRow][move.ToCol]
        moved    == IF move.Promote THEN Piece(Promoted(piece.Type), piece.Owner)
                    ELSE piece
        cells    == [[b.Cells EXCEPT ![move.ToRow][move.ToCol] = moved]
                        EXCEPT ![move.FromRow][move.FromCol] = NoPiece]
    IN  IF b.CurrentTurn = First
        THEN LET app == AppendOne(mem, b.FirstHand, Demote(captured.Type))
             IN  [mem |-> app.mem, b |-> [b EXCEPT !.Cells = cells, !.FirstHand = app.s]]
        ELSE LET app == AppendOne(mem, b.SecondHand, Demote(captured.Type))
             IN  [mem |-> app.mem, b |-> [b EXCEPT !.Cells = cells, !.SecondHand = app.s]]

\* The board-move branch: capture into the mover's hand, promotion, relocation.
MakeBoardMove(mem, b, move) ==
    LET piece    == b.Cells[move.FromRow][move.FromCol]
        captured == b.Cells[move.ToRow][move.ToCol]
        moved    == IF move.Promote THEN Piece(Promoted(piece.Type), piece.Owner)
                    ELSE piece
        cells    == [[b.Cells EXCEPT ![move.ToRow][move.ToCol] = moved]
                        EXCEPT ![move.FromRow][move.FromCol] = NoPiece]
    IN  IF captured.Owner = None
        THEN [mem |-> mem, b |-> [b EXCEPT !.Cells = cells]]
        ELSE IF b.CurrentTurn = First
        THEN LET app == AppendOne(mem, b.FirstHand, Demote(captured.Type))
             IN  [mem |-> app.mem, b |-> [b EXCEPT !.Cells = cells, !.FirstHand = app.s]]
        ELSE LET app == AppendOne(mem, b.SecondHand, Demote(captured.Type))
             IN  [mem |-> app.mem, b |-> [b EXCEPT !.Cells = cells, !.SecondHand = app.s]]

\* MakeMove with the turn change inside the board-move branch only.
MakeMove_NoFlipOnDrop(mem, b, move) ==
    IF move.IsDrop
    THEN MakeDrop(mem, b, move)
    ELSE LET done == MakeBoardMove(mem, b, move)
         IN  [mem |-> done.mem,
              b   |-> [done.b EXCEPT !.CurrentTurn = NextTurn(b.CurrentTurn)]]

\* MakeMove on board b in memory mem: the memory and the board afterwards.
MakeMove(mem, b, move) ==
    LET done == IF move.IsDrop THEN MakeDrop(mem, b, move)
                ELSE MakeBoardMove(mem, b, move)
    IN  [mem |-> done.mem,
         b   |-> [done.b EXCEPT !.CurrentTurn = NextTurn(b.CurrentTurn)]]

\* ---------------------------------------------------------------- IsGameOver
HasKing(b, player) ==
    \E r \in Rows, c \in Cols :
        b.Cells[r][c].Type = King /\ b.Cells[r][c].Owner = player

\* IsGameOver with the winners exchanged.
IsGameOver_WinnerSwapped(b) ==
    IF ~HasKing(b, First) THEN [over |-> TRUE, winner |-> First]
    ELSE IF ~HasKing(b, Second) THEN [over |-> TRUE, winner |-> Second]
    ELSE [over |-> FALSE, winner |-> None]

IsGameOver(b) ==
    IF ~HasKing(b, First) THEN [over |-> TRUE, winner |-> Second]
    ELSE IF ~HasKing(b, Second) THEN [over |-> TRUE, winner |-> First]
    ELSE [over |-> FALSE, winner |-> None]

\* ------------------------------------------------------------------ Evaluate
\* The map pieceValues; a kind that is no key (Empty) reads as 0.
pieceValues(t) ==
    CASE t = King -> 10000
      [] t = Gold -> 600
      [] t = Silver -> 500
      [] t = Bishop -> 800
      [] t = Rook -> 900
      [] t = Pawn -> 100
      [] t = PromotedSilver -> 600
      [] t = PromotedBishop -> 1000
      [] t = PromotedRook -> 1100
      [] t = PromotedPawn -> 600
      [] OTHER -> 0

RECURSIVE SumSeq(_)
SumSeq(s) == IF s = << >> THEN 0 ELSE Head(s) + SumSeq(Tail(s))

HandValue(hand) == SumSeq([i \in 1..Len(hand) |-> (pieceValues(hand[i]) * 8) \div 10])

Evaluate(mem, b) ==
    SumSeq([k \in 1..Len(CellSeq) |->
        LET piece == b.Cells[CellSeq[k][1]][CellSeq[k][2]]
        IN  IF piece.Owner = First THEN pieceValues(piece.Type)
            ELSE IF piece.Owner = Second THEN 0 - pieceValues(piece.Type)
            ELSE 0])
    + HandValue(Elems(mem, b.FirstHand))
    - HandValue(Elems(mem, b.SecondHand))

\* Backing arrays no board refers to any more are reclaimed.
Collect(mem, boards) ==
    LET live == {bd.FirstHand.ptr : bd \in boards} \cup {bd.SecondHand.ptr : bd \in boards}
    IN  [a \in (DOMAIN mem) \cap live |-> mem[a]]

\* ------------------------------------------------------------- played games
\* The memory m with every array written out element by element: the same
\* value, in a form whose evaluation does not go back through the moves
\* that built it.
WrittenOut(m) ==
    LET arrays == [a \in DOMAIN m |-> SubSeq(m[a], 1, Len(m[a]))]
    IN  arrays @@ arrays

\* The record `line` played on from the position st: board.MakeMove for each
\* move in turn.  (A record of several moves is played as its first half
\* followed by its second half.)
RECURSIVE ReplayFrom(_, _)
ReplayFrom(st, line) ==
    IF line = << >>
    THEN st
    ELSE IF Len(line) = 1
    THEN LET after == MakeMove(st.mem, st.b, line[1])
         IN  [mem |-> WrittenOut(Collect(after.mem, {after.b})), b |-> after.b]
    ELSE LET half == Len(line) \div 2
         IN  CHOOSE end \in {ReplayFrom(mid, SubSeq(line, half + 1, Len(line))) :
                                mid \in {ReplayFrom(st, SubSeq(line, 1, half))}} : TRUE

\* Every move of `line` was legal when played on from st, and the game was not over.
RECURSIVE LegalFrom(_, _)
LegalFrom(st, line) ==
    IF line = << >>
    THEN TRUE
    ELSE IF Len(line) = 1
    THEN /\ ~IsGameOver(st.b).over
         /\ \E o \in KindOrders(st.mem, st.b) :
               line[1] \in Range(GetAllLegalMoves(st.b, o))
    ELSE LET half == Len(line) \div 2
         IN  /\ LegalFrom(st, SubSeq(line, 1, half))
             /\ \A mid \in {ReplayFrom(st, SubSeq(line, 1, half))} :
                   LegalFrom(mid, SubSeq(line, half + 1, Len(line)))

\* A game record: the moves played so far from the initial layout.
Replay(line) == ReplayFrom([mem |-> << >>, b |-> NewBoard], line)

\* Every move of the record was legal when played, and the game was not over.
LegalLine(line) == LegalFrom([mem |-> << >>, b |-> NewBoard], line)

BM(fr, fc, tr, tc) == Move(fr, fc, tr, tc, FALSE, Empty, FALSE)
BMP(fr, fc, tr, tc) == Move(fr, fc, tr, tc, FALSE, Empty, TRUE)
DM(tr, tc, kind) == Move(-1, -1, tr, tc, TRUE, kind, FALSE)

\* Game records used as starting positions of the exploration.
\* 1: First's bishop reaches (1,0), from where it can promote capturing on (0,1).
\* 2: First's rook takes the pawn and is taken by the king.
\* 3: the same, then First's bishop takes the gold: First holds a Pawn and a
\*    Gold, Second a Rook.
\* 4: both silvers walk to the rank before their promotion zones.
\* 5: First's pawn and silver walk to the rank before the promotion zone while
\*    Second's gold shuttles.
Lines ==
    << << BM(4, 3, 1, 0), BM(0, 4, 1, 3) >>,
       << BM(4, 4, 1, 4), BM(0, 4, 1, 4) >>,
       << BM(4, 4, 1, 4), BM(0, 4, 1, 4), BM(4, 3, 2, 1), BM(0, 0, 1, 0),
          BM(2, 1, 0, 3), BM(1, 0, 2, 0) >>,
       << BM(4, 2, 3, 3), BM(0, 2, 1, 1), BM(3, 3, 2, 3), BM(1, 1, 2, 1),
          BM(2, 3, 1, 2), BM(2, 1, 3, 2) >>,
       << BM(3, 0, 2, 0), BM(0, 3, 1, 3), BM(2, 0, 1, 0), BM(1, 3, 0, 3),
          BM(4, 2, 3, 2), BM(0, 3, 1, 3), BM(3, 2, 2, 2), BM(1, 3, 0, 3),
          BM(2, 2, 1, 2), BM(0, 3, 1, 3) >> >>

\* A game of 42 moves: First takes every piece but the King (its own Pawn is
\* taken by the Rook, dropped again and taken back) and walls itself in on the
\* two far ranks.  After the last move First, with both Kings on the board
\* and an empty hand, has no legal move.
WalledIn ==
    << BM(4, 4, 1, 4), BM(0, 4, 1, 3), BM(3, 0, 2, 0), BM(0, 0, 2, 0),
       BM(4, 0, 3, 0), DM(3, 1, Pawn), BM(3, 0, 2, 0), BM(1, 3, 2, 3),
       BM(4, 1, 3, 1), BM(2, 3, 3, 3), BM(4, 3, 1, 0), BM(3, 3, 4, 4),
       BM(4, 2, 3, 2), BM(0, 2, 1, 2), BM(3, 2, 2, 2), BM(0, 3, 1, 3),
       BM(2, 2, 1, 2), BM(4, 4, 3, 4), BM(1, 4, 1, 3), BM(3, 4, 4, 4),
       BM(3, 1, 2, 1), BM(4, 4, 3, 4), BM(2, 1, 1, 1), BM(3, 4, 4, 4),
       BM(1, 1, 0, 1), BM(4, 4, 3, 4), BM(2, 0, 1, 1), BM(3, 4, 4, 4),
       BM(1, 1, 0, 0), BM(4, 4, 3, 4), DM(1, 1, Rook), BM(3, 4, 4, 4),
       DM(0, 2, Gold), BM(4, 4, 3, 4), DM(0, 3, Silver), BM(3, 4, 4, 4),
       DM(1, 4, Bishop), BM(4, 4, 3, 4), DM(2, 1, Pawn), BM(3, 4, 4, 4),
       DM(2, 3, Pawn), BM(4, 4, 3, 4) >>

\* The starting positions: the initial layout and, for every record, the
\* positions before and after its last move; of the long game also the
\* position four moves before its end, where First holds two Pawns.
StartPositions ==
    {Replay(<< >>)} \cup
    UNION {{Replay(SubSeq(Lines[k], 1, n)) : n \in {Len(Lines[k]) - 1, Len(Lines[k])}} :
              k \in {j \in 1..Len(Lines) : LegalLine(Lines[j])}} \cup
    (IF LegalLine(WalledIn)
     THEN {Replay(SubSeq(WalledIn, 1, n)) :
              n \in {Len(WalledIn) - 4, Len(WalledIn) - 1, Len(WalledIn)}}
     ELSE {})

\* ---------------------------------------------------------------- the game
\* The number of moves explored from each starting position.
MaxPly == 2

VARIABLES
    mem,     \* the backing arrays of the hand slices, by address
    board,   \* the authoritative Board of main
    move,    \* the move main applied last (NilMove before the first)
    ply,     \* the number of moves applied since the starting position
    stack,   \* the activations of Minimax, the innermost last
    result,  \* what the outermost Minimax returned, NoResult until it has
    io       \* main's locals and console: aiPlayer, and how the last pass of
             \* its loop ended, whether it asked about promotion and the answer

vars == << mem, board, move, ply, stack, result, io >>

NoResult == [IsNil |-> TRUE]

\* main before the mode was read: no loop pass has run.
NoIO == [aiPlayer |-> None, outcome |-> "start", asked |-> FALSE, answer |-> << >>]

\* The legal moves of board b as a set, whatever the iteration order of the drops.
LegalMoveSet(m, b) ==
    UNION {Range(GetAllLegalMoves(b, o)) : o \in KindOrders(m, b)}

Init ==
    /\ \E st \in StartPositions :
          /\ mem = st.mem
          /\ board = st.b
    /\ move = NilMove
    /\ ply = 0
    /\ stack = << >>
    /\ result = NoResult
    /\ io = NoIO

\* main applies the legal move mv to the authoritative board; it does so
\* between searches only.
Apply(mv) ==
    /\ stack = << >>
    /\ result = NoResult
    /\ ply < MaxPly
    /\ ~IsGameOver(board).over
    /\ LET after == MakeMove(mem, board, mv)
       IN  /\ mem' = Collect(after.mem, {after.b})
           /\ board' = after.b
    /\ move' = mv
    /\ ply' = ply + 1
    /\ UNCHANGED << stack, result, io >>

PlayBoardMove == \E mv \in LegalMoveSet(mem, board) : ~mv.IsDrop /\ Apply(mv)

PlayDrop == \E mv \in LegalMoveSet(mem, board) : mv.IsDrop /\ Apply(mv)

Next == PlayBoardMove \/ PlayDrop

Spec == Init /\ [][Next]_vars

\* --------------------------------------------------------------- the search
\* The sentinel bounds -999999 and 999999.
Infinity == 999999

\* `depth := 3` of GetAIMove.
SearchDepth == 3

max(a, b) == IF a > b THEN a ELSE b

min(a, b) == IF a < b THEN a ELSE b

\* An activation of Minimax at its first statement.
Frame(b, depth, alpha, beta, maximizing) ==
    [b |-> b, depth |-> depth, alpha |-> alpha, beta |-> beta,
     maximizing |-> maximizing, pc |-> "entry", moves |-> << >>, i |-> 0,
     eval |-> 0, bestMove |-> NilMove, ret |-> NoResult]

Top == stack[Len(stack)]

SetTop(f) == [stack EXCEPT ![Len(stack)] = f]

\* The boards that are live: main's and the receiver of every activation.
LiveBoards(stk) == {board} \cup {stk[k].b : k \in 1..Len(stk)}

\* The call board.Minimax(depth, -999999, 999999, board.CurrentTurn == First),
\* made on the starting positions.
CallMinimax(depth) ==
    /\ stack = << >>
    /\ result = NoResult
    /\ ply = 0
    /\ stack' = << Frame(board, depth, 0 - Infinity, Infinity, board.CurrentTurn = First) >>
    /\ UNCHANGED << mem, board, move, ply, result, io >>

GetAIMove == CallMinimax(SearchDepth)

\* Minimax called at the top level with a smaller depth.
ShallowSearch == \E depth \in 0..(SearchDepth - 1) : CallMinimax(depth)

\* The early returns answering `return 0, nil` instead of the evaluation.
Leaf_ZeroScore ==
    /\ stack # << >>
    /\ Top.pc = "entry"
    /\ \/ Top.depth = 0
       \/ IsGameOver(Top.b).over
       \/ LegalMoveSet(mem, Top.b) = {}
    /\ stack' = SetTop([Top EXCEPT !.pc = "ret",
                           !.ret = [score |-> 0, move |-> NilMove]])
    /\ UNCHANGED << mem, board, move, ply, result, io >>

\* The three early returns: depth 0, game over, no legal move.
Leaf ==
    /\ stack # << >>
    /\ Top.pc = "entry"
    /\ \/ Top.depth = 0
       \/ IsGameOver(Top.b).over
       \/ LegalMoveSet(mem, Top.b) = {}
    /\ stack' = SetTop([Top EXCEPT !.pc = "ret",
                           !.ret = [score |-> Evaluate(mem, Top.b), move |-> NilMove]])
    /\ UNCHANGED << mem, board, move, ply, result, io >>

\* moves := b.GetAllLegalMoves() with at least one move; the loop starts.
Expand ==
    /\ stack # << >>
    /\ Top.pc = "entry"
    /\ Top.depth # 0
    /\ ~IsGameOver(Top.b).over
    /\ \E o \in KindOrders(mem, Top.b) :
          LET moves == GetAllLegalMoves(Top.b, o)
          IN  /\ Len(moves) # 0
              /\ stack' = SetTop([Top EXCEPT !.pc = "loop", !.moves = moves, !.i = 1,
                                     !.eval = IF Top.maximizing THEN 0 - Infinity
                                              ELSE Infinity])
    /\ UNCHANGED << mem, board, move, ply, result, io >>

\* newBoard := *b alone: the hand slices of the copy still point into b's arrays.
CopyBoard_Shallow(m, b) == [mem |-> m, b |-> b]

\* newBoard := *b with both hands copied into new arrays.
CopyBoard(m, b) ==
    LET fh == CopySlice(m, b.FirstHand)
        sh == CopySlice(fh.mem, b.SecondHand)
    IN  [mem |-> sh.mem, b |-> [b EXCEPT !.FirstHand = fh.s, !.SecondHand = sh.s]]

\* One iteration of the loop up to the recursive call: copy, MakeMove, call.
Descend ==
    /\ stack # << >>
    /\ Top.pc = "loop"
    /\ LET copy  == CopyBoard(mem, Top.b)
           after == MakeMove(copy.mem, copy.b, Top.moves[Top.i])
       IN  /\ mem' = after.mem
           /\ stack' = Append(SetTop([Top EXCEPT !.pc = "call"]),
                              Frame(after.b, Top.depth - 1, Top.alpha, Top.beta,
                                    ~Top.maximizing))
    /\ UNCHANGED << board, move, ply, result, io >>

\* AfterCall with the cutoff test turned round: `if beta >= alpha { break }`.
AfterCall_CutoffFlipped(f, eval) ==
    LET better   == IF f.maximizing THEN eval > f.eval ELSE eval < f.eval
        best     == IF better THEN eval ELSE f.eval
        bestMove == IF better THEN f.moves[f.i] ELSE f.bestMove
        alpha    == IF f.maximizing THEN max(f.alpha, eval) ELSE f.alpha
        beta     == IF f.maximizing THEN f.beta ELSE min(f.beta, eval)
        over     == beta >= alpha \/ f.i = Len(f.moves)
    IN  [f EXCEPT !.eval = best, !.bestMove = bestMove, !.alpha = alpha, !.beta = beta,
                  !.i = IF over THEN f.i ELSE f.i + 1,
                  !.pc = IF over THEN "ret" ELSE "loop",
                  !.ret = IF over THEN [score |-> best, move |-> bestMove] ELSE NoResult]

\* AfterCall with `>=` and `<=` in the comparisons with the best value so far.
AfterCall_TiesReplace(f, eval) ==
    LET better   == IF f.maximizing THEN eval >= f.eval ELSE eval <= f.eval
        best     == IF better THEN eval ELSE f.eval
        bestMove == IF better THEN f.moves[f.i] ELSE f.bestMove
        alpha    == IF f.maximizing THEN max(f.alpha, eval) ELSE f.alpha
        beta     == IF f.maximizing THEN f.beta ELSE min(f.beta, eval)
        over     == beta <= alpha \/ f.i = Len(f.moves)
    IN  [f EXCEPT !.eval = best, !.bestMove = bestMove, !.alpha = alpha, !.beta = beta,
                  !.i = IF over THEN f.i ELSE f.i + 1,
                  !.pc = IF over THEN "ret" ELSE "loop",
                  !.ret = IF over THEN [score |-> best, move |-> bestMove] ELSE NoResult]

\* The rest of the iteration in the caller f once the call returned eval:
\* best value and move, window, cutoff, next move or return.
AfterCall(f, eval) ==
    LET better   == IF f.maximizing THEN eval > f.eval ELSE eval < f.eval
        best     == IF better THEN eval ELSE f.eval
        bestMove == IF better THEN f.moves[f.i] ELSE f.bestMove
        alpha    == IF f.maximizing THEN max(f.alpha, eval) ELSE f.alpha
        beta     == IF f.maximizing THEN f.beta ELSE min(f.beta, eval)
        over     == beta <= alpha \/ f.i = Len(f.moves)
    IN  [f EXCEPT !.eval = best, !.bestMove = bestMove, !.alpha = alpha, !.beta = beta,
                  !.i = IF over THEN f.i ELSE f.i + 1,
                  !.pc = IF over THEN "ret" ELSE "loop",
                  !.ret = IF over THEN [score |-> best, move |-> bestMove] ELSE NoResult]

\* A recursive call returns to its caller; newBoard goes out of scope.
Return ==
    /\ Len(stack) >= 2
    /\ Top.pc = "ret"
    /\ LET caller == stack[Len(stack) - 1]
           rest   == SubSeq(stack, 1, Len(stack) - 2)
       IN  /\ stack' = Append(rest, AfterCall(caller, Top.ret.score))
           /\ mem' = Collect(mem, LiveBoards(rest) \cup {caller.b})
    /\ UNCHANGED << board, move, ply, result, io >>

\* The outermost call returns to main.
Finish ==
    /\ Len(stack) = 1
    /\ Top.pc = "ret"
    /\ result' = [score |-> Top.ret.score, move |-> Top.ret.move, depth |-> Top.depth]
    /\ stack' = << >>
    /\ mem' = Collect(mem, {board})
    /\ UNCHANGED << board, move, ply, io >>

NextSearch ==
    \/ PlayBoardMove
    \/ PlayDrop
    \/ GetAIMove
    \/ ShallowSearch
    \/ Leaf
    \/ Expand
    \/ Descend
    \/ Return
    \/ Finish

SpecSearch == Init /\ [][NextSearch]_vars

\* ---------------------------------------------------------------- the driver
\* An input line is the sequence of its bytes.  The bytes that occur in the
\* explored lines, with their codes.
Ord ==
    [ch \in {" ", "0", "1", "2", "3", "4", "5", "6", "9",
             "P", "b", "g", "k", "p", "r", "s", "x", "y", "n"} |->
        CASE ch = " " -> 32
          [] ch = "0" -> 48
          [] ch = "1" -> 49
          [] ch = "2" -> 50
          [] ch = "3" -> 51
          [] ch = "4" -> 52
          [] ch = "5" -> 53
          [] ch = "6" -> 54
          [] ch = "9" -> 57
          [] ch = "P" -> 80
          [] ch = "b" -> 98
          [] ch = "g" -> 103
          [] ch = "k" -> 107
          [] ch = "n" -> 110
          [] ch = "p" -> 112
          [] ch = "r" -> 114
          [] ch = "s" -> 115
          [] ch = "x" -> 120
          [] ch = "y" -> 121]

\* The byte with the given code.
Chr(code) == CHOOSE ch \in DOMAIN Ord : Ord[ch] = code

\* Arithmetic on the type byte wraps around.
ByteSize == 256

\* strings.ToLower: the letters A..Z become a..z.
ToLower(input) ==
    [i \in 1..Len(input) |->
        IF Ord[input[i]] >= 65 /\ Ord[input[i]] <= 90
        THEN Chr(Ord[input[i]] + 32)
        ELSE input[i]]

\* strings.TrimSpace: leading and trailing blanks are cut off.
TrimSpace(input) ==
    LET keep == {i \in 1..Len(input) : input[i] # " "}
    IN  IF keep = {}
        THEN << >>
        ELSE SubSeq(input, CHOOSE i \in keep : \A j \in keep : i <= j,
                           CHOOSE i \in keep : \A j \in keep : j <= i)

isDigit(ch) == Ord[ch] >= Ord["0"] /\ Ord[ch] <= Ord["9"]

\* The map `pieces` of parseInput.
pieces == [p |-> Pawn, s |-> Silver, g |-> Gold, b |-> Bishop, r |-> Rook]

\* parseInput: a drop "p53" or a board move "5133"; nil for everything else.
\* The digits are read as int(input[i]-'0') - 1, the subtraction being one
\* of bytes.
parseInput(raw) ==
    LET input    == TrimSpace(ToLower(raw))
        num(i)   == ((Ord[input[i]] - Ord["0"]) % ByteSize) - 1
        ok(n)    == n >= 0 /\ n < 5
        dropMove == IF /\ Len(input) = 3
                       /\ ~isDigit(input[1])
                       /\ input[1] \in DOMAIN pieces
                       /\ ok(num(2)) /\ ok(num(3))
                    THEN Move(-1, -1, num(3), num(2), TRUE, pieces[input[1]], FALSE)
                    ELSE NilMove
    IN  IF dropMove # NilMove
        THEN dropMove
        ELSE IF /\ Len(input) = 4
                /\ isDigit(input[1])
                /\ ok(num(1)) /\ ok(num(2)) /\ ok(num(3)) /\ ok(num(4))
        THEN Move(num(2), num(1), num(4), num(3), FALSE, Empty, FALSE)
        ELSE NilMove

movesEqual(m1, m2) ==
    /\ m1.FromRow = m2.FromRow /\ m1.FromCol = m2.FromCol
    /\ m1.ToRow = m2.ToRow /\ m1.ToCol = m2.ToCol
    /\ m1.IsDrop = m2.IsDrop /\ m1.DropPiece = m2.DropPiece
    /\ m1.Promote = m2.Promote

canChoosePromote(b, mv) ==
    IF mv.IsDrop
    THEN FALSE
    ELSE LET piece == b.Cells[mv.FromRow][mv.FromCol]
         IN  IF piece.Type \in {Silver, Bishop, Rook, Pawn}
             THEN canPromote(piece.Owner, mv.ToRow)
             ELSE FALSE

\* The loop `for _, lm := range legalMoves { if movesEqual(move, &lm) ... break }`:
\* the position of the first legal move equal to mv, 0 when there is none.
FirstMatch(legalMoves, mv) ==
    IF \E i \in 1..Len(legalMoves) : movesEqual(mv, legalMoves[i])
    THEN CHOOSE i \in 1..Len(legalMoves) :
            /\ movesEqual(mv, legalMoves[i])
            /\ \A j \in 1..(i - 1) : ~movesEqual(mv, legalMoves[j])
    ELSE 0

\* HumanPass applying the entered move whether or not it matched a legal one.
HumanPass_NoRetry(b, legalMoves, input, answer) ==
    LET parsed == parseInput(input)
        first  == FirstMatch(legalMoves, parsed)
    IN  IF parsed = NilMove
        THEN [outcome |-> "invalid", move |-> NilMove, asked |-> FALSE]
        ELSE IF first # 0
        THEN [outcome |-> "moved", move |-> legalMoves[first], asked |-> FALSE]
        ELSE [outcome |-> "moved", move |-> parsed, asked |-> FALSE]

\* The human branch of one pass of main's loop on board b, the line `input`
\* being typed and `answer` being the reply if the promotion question is
\* asked: how the pass ends ("invalid": 無効な入力です, "rejected":
\* その手は指せません, "moved": the end of the loop body is reached), the move
\* that reaches MakeMove, and whether the question was asked.
HumanPass(b, legalMoves, input, answer) ==
    LET parsed == parseInput(input)
        first  == FirstMatch(legalMoves, parsed)
        again  == IF answer = << "y" >> THEN [parsed EXCEPT !.Promote = TRUE] ELSE parsed
        second == FirstMatch(legalMoves, again)
    IN  IF parsed = NilMove
        THEN [outcome |-> "invalid", move |-> NilMove, asked |-> FALSE]
        ELSE IF first # 0
        THEN [outcome |-> "moved", move |-> legalMoves[first], asked |-> FALSE]
        ELSE IF ~parsed.IsDrop /\ canChoosePromote(b, parsed)
        THEN IF second # 0
             THEN [outcome |-> "moved", move |-> legalMoves[second], asked |-> TRUE]
             ELSE [outcome |-> "rejected", move |-> NilMove, asked |-> TRUE]
        ELSE [outcome |-> "rejected", move |-> NilMove, asked |-> FALSE]

Squares == {"1", "2", "3", "4", "5"}

\* The lines typed at the prompt 入力: every board move and every drop in the
\* notation of the prompt, and lines that are not of that form.
Inputs ==
    {<< a, b, c, d >> : a \in Squares, b \in Squares, c \in Squares, d \in Squares}
    \cup {<< k, a, b >> : k \in DOMAIN pieces, a \in Squares, b \in Squares}
    \cup {<< >>, << "1", "2" >>, << "1", "2", "3" >>, << "p", "1", "1", "1" >>,
          << "0", "1", "1", "1" >>, << "6", "1", "1", "1" >>, << "1", "1", "1", "6" >>,
          << "1", "x", "1", "1" >>, << "9", "9", "9", "9" >>,
          << "k", "1", "1" >>, << "x", "1", "1" >>, << "p", "0", "1" >>,
          << "p", "6", "1" >>, << "p", "1", "x" >>, << "p", " ", "1" >>,
          << "P", "2", "3" >>, << " ", "1", "5", "1", "4", " " >>}

\* The lines typed at the prompt 成りますか？ (y/n).
Answers == {<< "y" >>, << "n" >>}

\* The ways a pass of the loop on the human's turn can go on board b: one for
\* every line typed and every answer; the answer is part of the outcome only
\* when it was read.
PassesOn(b, legalMoves) ==
    {LET pass == HumanPass(b, legalMoves, input, answer)
     IN  [outcome |-> pass.outcome, move |-> pass.move, asked |-> pass.asked,
          answer |-> IF pass.asked THEN answer ELSE << >>] :
        input \in Inputs, answer \in Answers}

\* What is typed at the prompt 選択してください, as strconv.Atoi reads it
\* (0 for a line that is no number).
Modes == {0, 1, 2}

\* main reads the mode and sets aiPlayer.
ChooseMode ==
    /\ io.aiPlayer = None
    /\ stack = << >>
    /\ result = NoResult
    /\ ply = 0
    /\ \E mode \in Modes :
          io' = [io EXCEPT !.aiPlayer = IF mode = 2 THEN First ELSE Second]
    /\ UNCHANGED << mem, board, move, ply, stack, result >>

\* main is at the top of its loop.
LoopTop ==
    /\ io.aiPlayer # None
    /\ io.outcome # "over"
    /\ stack = << >>
    /\ result = NoResult

\* `if gameOver { ... break }`.
DeclareWinner ==
    /\ LoopTop
    /\ IsGameOver(board).over
    /\ io' = [io EXCEPT !.outcome = "over", !.asked = FALSE, !.answer = << >>]
    /\ UNCHANGED << mem, board, move, ply, stack, result >>

\* One pass of the loop on the human's turn: input, parse, legality check,
\* promotion question, and MakeMove or `continue`.
HumanTurn ==
    /\ LoopTop
    /\ ~IsGameOver(board).over
    /\ board.CurrentTurn # io.aiPlayer
    /\ \E o \in KindOrders(mem, board) :
          \E pass \in PassesOn(board, GetAllLegalMoves(board, o)) :
             /\ io' = [io EXCEPT !.outcome = pass.outcome,
                                 !.asked = pass.asked,
                                 !.answer = pass.answer]
             /\ IF pass.outcome = "moved"
                THEN /\ ply < MaxPly
                     /\ LET after == MakeMove(mem, board, pass.move)
                        IN  /\ mem' = Collect(after.mem, {after.b})
                            /\ board' = after.b
                     /\ move' = pass.move
                     /\ ply' = ply + 1
                ELSE UNCHANGED << mem, board, move, ply >>
    /\ UNCHANGED << stack, result >>

\* The pass of the loop on the AI's turn up to the call of GetAIMove.
AIThinks ==
    /\ LoopTop
    /\ ~IsGameOver(board).over
    /\ board.CurrentTurn = io.aiPlayer
    /\ GetAIMove

\* The rest of that pass: `if move != nil { board.MakeMove(*move) }`.
AIMoves ==
    /\ io.aiPlayer # None
    /\ stack = << >>
    /\ result # NoResult
    /\ result' = NoResult
    /\ IF result.move # NilMove
       THEN /\ LET after == MakeMove(mem, board, result.move)
               IN  /\ mem' = Collect(after.mem, {after.b})
                   /\ board' = after.b
            /\ move' = result.move
            /\ ply' = ply + 1
            /\ io' = [io EXCEPT !.outcome = "moved", !.asked = FALSE, !.answer = << >>]
       ELSE /\ UNCHANGED << mem, board, move, ply >>
            /\ io' = [io EXCEPT !.outcome = "nomove", !.asked = FALSE, !.answer = << >>]
    /\ UNCHANGED stack

NextDriver ==
    \/ ChooseMode
    \/ DeclareWinner
    \/ HumanTurn
    \/ AIThinks
    \/ Leaf
    \/ Expand
    \/ Descend
    \/ Return
    \/ Finish
    \/ AIMoves

SpecDriver == Init /\ [][NextDriver]_vars

\* ================================================================ properties
\* What a board holds, the hands read through the memory.
FirstHandOf(m, b) == Elems(m, b.FirstHand)

SecondHandOf(m, b) == Elems(m, b.SecondHand)

View(m, b) ==
    [Cells |-> b.Cells, FirstHand |-> FirstHandOf(m, b),
     SecondHand |-> SecondHandOf(m, b), CurrentTurn |-> b.CurrentTurn]

Kinds == King..PromotedPawn

BaseKinds == {King, Gold, Silver, Bishop, Rook, Pawn}

PromotedKinds == {PromotedSilver, PromotedBishop, PromotedRook, PromotedPawn}

\* The base kind of every kind, as a table indexed by the kind.
BaseKindOf == << King, Gold, Silver, Bishop, Rook, Pawn, Silver, Bishop, Rook, Pawn >>

Opponent(player) == 3 - player

CellsWith(b, kinds, owners) ==
    {rc \in Rows \X Cols :
        b.Cells[rc[1]][rc[2]].Type \in kinds /\ b.Cells[rc[1]][rc[2]].Owner \in owners}

CountIn(hand, kinds) == Cardinality({i \in 1..Len(hand) : hand[i] \in kinds})

\* Pieces of the given kinds on the board and in both hands.
Material(m, b, kinds) ==
    Cardinality(CellsWith(b, kinds, {First, Second}))
    + CountIn(FirstHandOf(m, b), kinds) + CountIn(SecondHandOf(m, b), kinds)

\* C1 as stated: each of the 10 kinds, counted separately over the board and
\* both hands, occurs as often as in the initial layout.
C1_KindCountsConserved ==
    \A k \in Kinds : Material(mem, board, {k}) = Material(<< >>, NewBoard, {k})

\* C1 amended: the pieces whose base kind is k (a promoted piece counted with
\* the kind it demotes to), over the board and both hands, are as many as in
\* the initial layout, for each of the six base kinds.
C1_BaseKindCountsConserved ==
    \A k \in BaseKinds :
        Material(mem, board, {t \in Kinds : BaseKindOf[t] = k})
            = Material(<< >>, NewBoard, {t \in Kinds : BaseKindOf[t] = k})

\* A promoting move was just applied while a captured piece sits in a hand.
C1_Witness ==
    /\ move # NilMove
    /\ move.Promote
    /\ board.Cells[move.ToRow][move.ToCol].Type \in PromotedKinds
    /\ Len(FirstHandOf(mem, board)) + Len(SecondHandOf(mem, board)) > 0

\* C3: every applied move, whatever its sort, turns First's turn into Second's
\* and Second's into First's; the side to move is never None.
C3_TurnAlternates ==
    [][/\ board.CurrentTurn \in {First, Second}
       /\ board'.CurrentTurn = Opponent(board.CurrentTurn)
       /\ ply' = ply + 1]_vars

\* Second has just dropped a piece and it is First's turn.
C3_Witness ==
    /\ move # NilMove
    /\ move.IsDrop
    /\ board.CurrentTurn = First
    /\ board.Cells[move.ToRow][move.ToCol] = Piece(move.DropPiece, Second)

NoPromotedInHands(m, b) ==
    /\ CountIn(FirstHandOf(m, b), PromotedKinds) = 0
    /\ CountIn(SecondHandOf(m, b), PromotedKinds) = 0

\* The step applies a board move onto an occupied cell.
IsCaptureStep ==
    /\ move' # NilMove
    /\ ply' = ply + 1
    /\ ~move'.IsDrop
    /\ board.Cells[move'.ToRow][move'.ToCol].Owner # None

\* C4: a capturing board move appends exactly one piece, the base kind of the
\* captured piece, to the mover's hand and leaves the opponent's hand alone;
\* no hand ever holds a promoted kind.
C4_CaptureGoesToHandDemoted ==
    /\ [](NoPromotedInHands(mem, board))
    /\ [][IsCaptureStep =>
            LET taken == BaseKindOf[board.Cells[move'.ToRow][move'.ToCol].Type]
            IN  IF board.CurrentTurn = First
                THEN /\ FirstHandOf(mem', board') = Append(FirstHandOf(mem, board), taken)
                     /\ SecondHandOf(mem', board') = SecondHandOf(mem, board)
                ELSE /\ SecondHandOf(mem', board') = Append(SecondHandOf(mem, board), taken)
                     /\ FirstHandOf(mem', board') = FirstHandOf(mem, board)]_vars

\* Second's rook has just captured the promoted bishop on (0,1): a Bishop is in
\* Second's hand.
C4_Witness ==
    /\ move = BM(0, 0, 0, 1)
    /\ board.Cells[0][1] = Piece(Rook, Second)
    /\ SecondHandOf(mem, board) = << Bishop >>
    /\ FirstHandOf(mem, board) = << Bishop >>

\* C7: the generated moves are moves of the side to move: a board move starts
\* on a cell of the mover and ends in bounds on a cell that is not the mover's;
\* a drop puts a kind of the mover's hand on an empty cell.
C7_MovesOfSideToMove ==
    \A mv \in LegalMoveSet(mem, board) :
        /\ mv.ToRow \in 0..4 /\ mv.ToCol \in 0..4
        /\ ~mv.IsDrop =>
              /\ mv.FromRow \in 0..4 /\ mv.FromCol \in 0..4
              /\ board.Cells[mv.FromRow][mv.FromCol].Owner = board.CurrentTurn
              /\ board.CurrentTurn \in {First, Second}
              /\ board.Cells[mv.ToRow][mv.ToCol].Owner # board.CurrentTurn
        /\ mv.IsDrop =>
              /\ board.Cells[mv.ToRow][mv.ToCol].Owner = None
              /\ mv.DropPiece \in Range(Elems(mem, MoverHand(board)))

\* After a move, the side to move can drop, capture, and step onto an empty cell.
C7_Witness ==
    /\ ply > 0
    /\ \E mv \in LegalMoveSet(mem, board) : mv.IsDrop
    /\ \E mv \in LegalMoveSet(mem, board) :
          ~mv.IsDrop /\ board.Cells[mv.ToRow][mv.ToCol].Owner = Opponent(board.CurrentTurn)
    /\ \E mv \in LegalMoveSet(mem, board) :
          ~mv.IsDrop /\ board.Cells[mv.ToRow][mv.ToCol].Owner = None

\* The promotion zone of a player: row 0 for First, row 4 for Second.
InZone(player, row) == (player = First /\ row = 0) \/ (player = Second /\ row = 4)

PromotableKinds == {Silver, Bishop, Rook, Pawn}

\* C8: for a Silver, Bishop, Rook or Pawn a destination in the mover's zone is
\* generated with and without promotion, a destination outside it without
\* promotion only; no other kind gets a promoting move.
C8_PromotionVariants ==
    \A r \in Rows, c \in Cols :
        LET moves == Range(GetPossibleMoves(board, r, c))
            piece == board.Cells[r][c]
        IN  \A mv \in moves :
                IF piece.Type \in PromotableKinds /\ InZone(piece.Owner, mv.ToRow)
                THEN /\ [mv EXCEPT !.Promote = TRUE] \in moves
                     /\ [mv EXCEPT !.Promote = FALSE] \in moves
                ELSE ~mv.Promote

\* A Silver of the side to move has a destination inside and one outside its zone,
\* and a Pawn of the side to move stands before its zone, after a move was played.
C8_Witness ==
    /\ ply > 0
    /\ \E rc \in CellsWith(board, {Silver}, {board.CurrentTurn}) :
          LET moves == Range(GetPossibleMoves(board, rc[1], rc[2]))
          IN  /\ \E mv \in moves : mv.Promote
              /\ \E mv \in moves : ~InZone(board.CurrentTurn, mv.ToRow)
    /\ \E rc \in CellsWith(board, {Pawn}, {board.CurrentTurn}) :
          \E mv \in Range(GetPossibleMoves(board, rc[1], rc[2])) : mv.Promote

\* The drops C9 allows: every kind held by the side to move on every empty
\* cell, except a Pawn into a column holding an unpromoted Pawn of the mover
\* and a Pawn onto the mover's farthest rank.
AllowedDrops(m, b) ==
    {DM(r, c, k) : r \in Rows, c \in Cols, k \in Range(Elems(m, MoverHand(b)))}
    \ ({mv \in {DM(r, c, Pawn) : r \in Rows, c \in Cols} :
           \/ CellsWith(b, {Pawn}, {b.CurrentTurn}) \cap (Rows \X {mv.ToCol}) # {}
           \/ InZone(b.CurrentTurn, mv.ToRow)}
       \cup {mv \in {DM(r, c, k) : r \in Rows, c \in Cols, k \in Kinds} :
               b.Cells[mv.ToRow][mv.ToCol].Owner # None})

\* C9: GetDropMoves returns exactly the allowed drops, in every iteration order.
C9_DropRestrictions ==
    \A o \in KindOrders(mem, board) :
        Range(GetDropMoves(board, o)) = AllowedDrops(mem, board)

\* After a move, the side to move holds a Pawn and another kind, has an
\* unpromoted Pawn on the board, and an empty cell on its farthest rank.
C9_Witness ==
    /\ ply > 0
    /\ Pawn \in Range(Elems(mem, MoverHand(board)))
    /\ Cardinality(Range(Elems(mem, MoverHand(board)))) >= 2
    /\ CellsWith(board, {Pawn}, {board.CurrentTurn}) # {}
    /\ \E c \in Cols :
          board.Cells[IF board.CurrentTurn = First THEN 0 ELSE 4][c].Owner = None

KingsOnBoard(b) == CellsWith(b, {King}, {First, Second})

\* C10: the game is over exactly when one King is on the board, the winner is
\* that King's owner, and with both Kings the answer is (false, None).
C10_GameOverIffOneKing ==
    LET kings == KingsOnBoard(board)
        res   == IsGameOver(board)
    IN  /\ res.over <=> Cardinality(kings) = 1
        /\ res.over =>
              \A rc \in kings : res.winner = board.Cells[rc[1]][rc[2]].Owner
        /\ Cardinality(kings) = 2 => res = [over |-> FALSE, winner |-> None]

\* A King has just been captured by a board move and its captor's side has won.
C10_Witness ==
    /\ move # NilMove
    /\ Cardinality(KingsOnBoard(board)) = 1
    /\ King \in Range(FirstHandOf(mem, board)) \cup Range(SecondHandOf(mem, board))
    /\ IsGameOver(board).winner = Opponent(board.CurrentTurn)

\* The rule on Kings for one board: at most one King per player, and the game
\* is over when a player has none.
KingRule(b) ==
    \A p \in {First, Second} :
        /\ Cardinality(CellsWith(b, {King}, {p})) <= 1
        /\ Cardinality(CellsWith(b, {King}, {p})) = 0 => IsGameOver(b).over

NoKingDropIn(moves) == \A mv \in moves : mv.IsDrop => mv.DropPiece # King

\* C2: on main's board and on the board of every node of a search, each player
\* has at most one King and a missing King means the game is over; no move
\* that was applied, is being tried by the search or is legal while the game
\* is on drops a King.
C2_KingInvariant ==
    /\ \A b \in LiveBoards(stack) : KingRule(b)
    /\ move # NilMove => NoKingDropIn({move})
    /\ (stack = << >> /\ ~IsGameOver(board).over) =>
          NoKingDropIn(LegalMoveSet(mem, board))
    /\ \A k \in 1..Len(stack) : NoKingDropIn(Range(stack[k].moves))

\* The search has captured a King in a node two plies below the root; the node
\* returned as a leaf and its captor holds the King.
C2_Witness ==
    /\ Len(stack) >= 3
    /\ Top.pc = "ret"
    /\ Top.depth > 0
    /\ Cardinality(KingsOnBoard(Top.b)) = 1
    /\ King \in Range(FirstHandOf(mem, Top.b)) \cup Range(SecondHandOf(mem, Top.b))

SetMax(S) == CHOOSE x \in S : \A y \in S : y <= x

SetMin(S) == CHOOSE x \in S : \A y \in S : x <= y

\* Minimax without a window: the value of every legal move is computed.
RECURSIVE FullMinimax(_, _, _, _)
FullMinimax(m, b, depth, maximizing) ==
    IF depth = 0 \/ IsGameOver(b).over \/ LegalMoveSet(m, b) = {}
    THEN Evaluate(m, b)
    ELSE LET vals == {LET child == MakeMove(m, b, mv)
                      IN  FullMinimax(child.mem, child.b, depth - 1, ~maximizing) :
                          mv \in LegalMoveSet(m, b)}
         IN  IF maximizing THEN SetMax(vals) ELSE SetMin(vals)

\* C5: the score returned by the top-level call equals the unpruned minimax
\* value of the position to the same depth.
C5_AlphaBetaEqualsMinimax ==
    result # NoResult =>
        result.score = FullMinimax(mem, board, result.depth, board.CurrentTurn = First)

\* A search of full depth returned a move and a score other than the static one.
C5_Witness ==
    /\ result # NoResult
    /\ result.depth = SearchDepth
    /\ result.move # NilMove
    /\ result.score # Evaluate(mem, board)

\* A loop of the search was left by the cutoff with moves still untried.
CutoffTaken ==
    /\ stack # << >>
    /\ Top.pc = "ret"
    /\ Top.moves # << >>
    /\ Top.i < Len(Top.moves)

\* The hand slices of the boards in use, each board once: main's board is the
\* receiver of the outermost activation.
HandSlices ==
    {<< 0, "FirstHand", board.FirstHand >>, << 0, "SecondHand", board.SecondHand >>}
    \cup {<< k, "FirstHand", stack[k].b.FirstHand >> : k \in 2..Len(stack)}
    \cup {<< k, "SecondHand", stack[k].b.SecondHand >> : k \in 2..Len(stack)}

\* No two hands of the boards in use lie in the same backing array.
NoSharedHandStorage ==
    \A x, y \in HandSlices : (x # y /\ x[3].ptr # 0) => x[3].ptr # y[3].ptr

\* C6: a search leaves the board it is called on as it was: no step of a
\* search changes the grid, the hands or the side to move of main's board or of
\* the receiver of any activation that stays on the stack; and no two boards
\* share hand storage.
C6_SearchLeavesReceiverUnchanged ==
    /\ [](NoSharedHandStorage)
    /\ [][(stack # << >> \/ stack' # << >>) =>
            /\ View(mem', board') = View(mem, board)
            /\ \A k \in 1..Len(stack) :
                  k <= Len(stack') => View(mem', stack'[k].b) = View(mem, stack[k].b)
            /\ (stack # << >> /\ stack' # << >>) =>
                  View(mem', stack'[1].b) = View(mem', board')]_vars

\* The search has applied a drop to a copy of a board whose mover holds two
\* different kinds: the copy's hand is shorter, the original holds both.
C6_Witness ==
    /\ Len(stack) >= 2
    /\ Top.pc = "entry"
    /\ LET caller == stack[Len(stack) - 1]
       IN  /\ caller.moves[caller.i].IsDrop
           /\ Cardinality(Range(Elems(mem, MoverHand(caller.b)))) >= 2
           /\ caller.moves[caller.i].DropPiece = Elems(mem, MoverHand(caller.b))[1]

\* ------------------------------------------------------------------- C11
\* The activation whose early-return test holds: depth 0, game over, or no
\* legal move.
IsLeaf(f) ==
    \/ f.depth = 0
    \/ IsGameOver(f.b).over
    \/ LegalMoveSet(mem, f.b) = {}

\* C11: an activation of Minimax that returns does so with
\* (Evaluate(position), no move) and without having generated or tried a move
\* when depth is 0, the game is over or there is no legal move; in every
\* other case the move it returns is not nil (and is one of its legal moves).
C11_LeafOrMove ==
    \A k \in 1..Len(stack) :
        LET f == stack[k]
        IN  f.pc = "ret" =>
               IF IsLeaf(f)
               THEN /\ f.ret = [score |-> Evaluate(mem, f.b), move |-> NilMove]
                    /\ f.moves = << >>
                    /\ f.i = 0
               ELSE /\ f.ret.move # NilMove
                    /\ f.ret.move \in Range(f.moves)

\* Inside a search, an activation with depth left and both Kings on the board
\* finds no legal move and returns no move.
C11_Witness ==
    /\ Len(stack) >= 2
    /\ Top.pc = "ret"
    /\ Top.depth > 0
    /\ ~IsGameOver(Top.b).over
    /\ LegalMoveSet(mem, Top.b) = {}
    /\ Top.ret.move = NilMove

\* ------------------------------------------------------------------- C12
\* The step applies a drop.
IsDropStep ==
    /\ move' # NilMove
    /\ ply' = ply + 1
    /\ move'.IsDrop

HandOf(m, b, player) == IF player = First THEN FirstHandOf(m, b) ELSE SecondHandOf(m, b)

\* C12: a generated drop puts Piece(kind, mover) on its destination, takes
\* exactly one piece of that kind out of the mover's hand and leaves every
\* other cell, the mover's count of every other kind and the opponent's hand
\* as they were.
C12_DropFrame ==
    [][IsDropStep =>
         LET mover == board.CurrentTurn
             kind  == move'.DropPiece
             to    == << move'.ToRow, move'.ToCol >>
         IN  /\ board.Cells[to[1]][to[2]] = NoPiece
             /\ board'.Cells[to[1]][to[2]] = Piece(kind, mover)
             /\ \A rc \in (Rows \X Cols) \ {to} :
                    board'.Cells[rc[1]][rc[2]] = board.Cells[rc[1]][rc[2]]
             /\ CountIn(HandOf(mem', board', mover), {kind})
                    = CountIn(HandOf(mem, board, mover), {kind}) - 1
             /\ \A k \in Kinds \ {kind} :
                    CountIn(HandOf(mem', board', mover), {k})
                       = CountIn(HandOf(mem, board, mover), {k})
             /\ Len(HandOf(mem', board', mover)) = Len(HandOf(mem, board, mover)) - 1
             /\ HandOf(mem', board', Opponent(mover))
                    = HandOf(mem, board, Opponent(mover))]_vars

\* First, holding two Pawns among other kinds, has just dropped one of them on
\* (2,1): the other Pawn is still in its hand.
C12_Witness ==
    /\ move = DM(2, 1, Pawn)
    /\ board.Cells[2][1] = Piece(Pawn, First)
    /\ board.CurrentTurn = Second
    /\ CountIn(FirstHandOf(mem, board), {Pawn}) = 1

\* ------------------------------------------------------------------- C13
\* The step applies a board move onto an empty cell.
IsQuietStep ==
    /\ move' # NilMove
    /\ ply' = ply + 1
    /\ ~move'.IsDrop
    /\ board.Cells[move'.ToRow][move'.ToCol].Owner = None

\* The position is the initial layout after First's Pawn step (3,0) -> (2,0).
AfterFirstPawnStep ==
    /\ move = BM(3, 0, 2, 0)
    /\ [board.Cells EXCEPT ![2][0] = NoPiece, ![3][0] = Piece(Pawn, First)] = NewBoard.Cells
    /\ board.Cells[2][0] = Piece(Pawn, First)

\* C13: a board move onto an empty cell leaves both hands as they were,
\* empties the source, puts the moved piece (promoted when the move promotes)
\* on the destination, changes no other cell and passes the turn; after
\* First's Pawn step from the initial layout it is Second's turn and First's
\* hand is empty.
C13_QuietMoveFrame ==
    /\ [](AfterFirstPawnStep =>
            /\ board.CurrentTurn = Second
            /\ FirstHandOf(mem, board) = << >>)
    /\ [][IsQuietStep =>
            LET mover == board.CurrentTurn
                from  == << move'.FromRow, move'.FromCol >>
                to    == << move'.ToRow, move'.ToCol >>
                piece == board.Cells[from[1]][from[2]]
                now   == board'.Cells[to[1]][to[2]]
            IN  /\ piece.Owner = mover
                /\ FirstHandOf(mem', board') = FirstHandOf(mem, board)
                /\ SecondHandOf(mem', board') = SecondHandOf(mem, board)
                /\ board'.Cells[from[1]][from[2]] = NoPiece
                /\ now.Owner = mover
                /\ IF move'.Promote
                   THEN now.Type \in PromotedKinds /\ BaseKindOf[now.Type] = piece.Type
                   ELSE now.Type = piece.Type
                /\ \A rc \in (Rows \X Cols) \ {from, to} :
                       board'.Cells[rc[1]][rc[2]] = board.Cells[rc[1]][rc[2]]
                /\ board'.CurrentTurn = Opponent(mover)]_vars

\* First's Pawn has stepped from (3,0) to (2,0) in the initial layout.
C13_Witness ==
    /\ AfterFirstPawnStep
    /\ ply = 1
    /\ board.Cells[3][0] = NoPiece
    /\ board.CurrentTurn = Second

\* ------------------------------------------------------------------- C14
\* The outermost activation has gone through its loop and is about to return
\* to main.
RootReturns ==
    /\ Len(stack) = 1
    /\ Top.pc = "ret"
    /\ Top.moves # << >>

\* The unpruned minimax value of the i-th generated move of the activation f.
MoveValue(f, i) ==
    LET child == MakeMove(mem, f.b, f.moves[i])
    IN  FullMinimax(child.mem, child.b, f.depth - 1, ~f.maximizing)

\* C14: the move the outermost call returns is a legal move of the position,
\* namely the first one in generation order whose unpruned minimax value
\* equals the value of the position; no later move of equal value replaces
\* it, for the maximizing and for the minimizing side.
C14_FirstBestMove ==
    RootReturns =>
        LET f     == Top
            value == FullMinimax(mem, f.b, f.depth, f.maximizing)
        IN  /\ f.ret.score = value
            /\ f.ret.move \in LegalMoveSet(mem, f.b)
            /\ \E i \in 1..Len(f.moves) :
                  /\ f.ret.move = f.moves[i]
                  /\ MoveValue(f, i) = value
                  /\ \A j \in 1..(i - 1) : MoveValue(f, j) # value

\* The minimizing side's search of full depth returns a move that is not the
\* first generated one, and a move generated later has the same value.
C14_Witness ==
    /\ RootReturns
    /\ Top.depth = SearchDepth
    /\ ~Top.maximizing
    /\ Top.ret.move # Top.moves[1]
    /\ \E i, j \in 1..Len(Top.moves) :
          /\ i < j
          /\ Top.ret.move = Top.moves[i]
          /\ MoveValue(Top, j) = Top.ret.score

\* The same for the maximizing side.
C14_WitnessMaximizing ==
    /\ RootReturns
    /\ Top.depth = SearchDepth
    /\ Top.maximizing
    /\ Top.ret.move # Top.moves[1]
    /\ \E i, j \in 1..Len(Top.moves) :
          /\ i < j
          /\ Top.ret.move = Top.moves[i]
          /\ MoveValue(Top, j) = Top.ret.score

\* ------------------------------------------------------------------- C15
\* The distinct kinds of the mover's hand in increasing order: an enumeration
\* that depends on the per-kind counts only.
SortedKinds(m, b) ==
    CHOOSE o \in KindOrders(m, b) : \A i, j \in 1..Len(o) : i < j => o[i] < o[j]

\* The first move of the sequence `moves` of position b whose unpruned
\* minimax value to the given depth is the value of the position.
FirstBest(m, b, moves, depth) ==
    LET maximizing == b.CurrentTurn = First
        value      == FullMinimax(m, b, depth, maximizing)
        val(i)     == LET child == MakeMove(m, b, moves[i])
                      IN  FullMinimax(child.mem, child.b, depth - 1, ~maximizing)
        first      == CHOOSE i \in 1..Len(moves) :
                         val(i) = value /\ \A j \in 1..(i - 1) : val(j) # value
    IN  moves[first]

\* Every activation of the search works on the move sequence that the
\* position alone determines.
SameMoveSequence ==
    \A k \in 1..Len(stack) :
        stack[k].moves # << >> =>
            stack[k].moves = GetAllLegalMoves(stack[k].b, SortedKinds(mem, stack[k].b))

\* The move and score returned to main are the ones the position alone
\* determines.
SameChosenMove ==
    (result # NoResult /\ result.move # NilMove) =>
        /\ result.score = FullMinimax(mem, board, result.depth, board.CurrentTurn = First)
        /\ result.move = FirstBest(mem, board,
                                   GetAllLegalMoves(board, SortedKinds(mem, board)),
                                   result.depth)

\* C15: the search is a function of the position (grid, per-kind hand
\* counts, side to move): every call generates the same move sequence and
\* the outermost call returns the same move and score, whatever the order in
\* which the set of distinct held kinds is iterated.
C15_SearchIsFunctionOfPosition == SameMoveSequence /\ SameChosenMove

\* ------------------------------------------------------------------- C16
\* main is at the prompt 入力 of the human player.
HumanToMove ==
    /\ LoopTop
    /\ ~IsGameOver(board).over
    /\ board.CurrentTurn # io.aiPlayer

\* The ways a pass of the loop can go at this prompt: every line and answer
\* typed, every order in which the drops are generated.
HumanPasses ==
    UNION {PassesOn(board, GetAllLegalMoves(board, o)) : o \in KindOrders(mem, board)}

\* Whenever the typed board move equals a legal move only with promote set,
\* the question is asked and the answer y makes the promoting move the one
\* that reaches MakeMove.
PromotionReoffered ==
    \A o \in KindOrders(mem, board), input \in Inputs :
        LET legalMoves == GetAllLegalMoves(board, o)
            parsed     == parseInput(input)
            twin       == [parsed EXCEPT !.Promote = TRUE]
        IN  (/\ parsed # NilMove
             /\ ~parsed.IsDrop
             /\ FirstMatch(legalMoves, parsed) = 0
             /\ FirstMatch(legalMoves, twin) # 0
             /\ canChoosePromote(board, parsed))
            => HumanPass(board, legalMoves, input, << "y" >>)
                  = [outcome |-> "moved", move |-> twin, asked |-> TRUE]

\* C16: at the human's prompt a board move that is legal only as a promoting
\* move is offered again with promote set and applied; and so, whenever a
\* promoting move is legal, there is something the human can type that makes
\* MakeMove be applied with Promote = true.
C16_HumanCanPromote ==
    HumanToMove =>
        /\ PromotionReoffered
        /\ (\E mv \in LegalMoveSet(mem, board) : mv.Promote) =>
              \E pass \in HumanPasses : pass.outcome = "moved" /\ pass.move.Promote

\* No move applied on a human turn promotes.
HumanNeverPromotes ==
    [][(HumanToMove /\ ply' = ply + 1) => ~move'.Promote]_vars

\* The promotion question is never followed by a move.
QuestionNeverHelps ==
    io.asked => io.outcome = "rejected"

\* ------------------------------------------------------------------- C17
\* C17: a move reaches MakeMove on main's board only if it is, field for
\* field, one of the legal moves of the position, and the board afterwards is
\* the result of that move; a pass at the human's prompt that ends with
\* その手は指せません, with or without the promotion question, leaves grid,
\* hands, side to move and the last applied move as they were, and the same
\* player is at the prompt again.
C17_OnlyLegalMovesApplied ==
    [][/\ ply' = ply + 1 =>
             /\ \E mv \in LegalMoveSet(mem, board) : movesEqual(move', mv)
             /\ View(mem', board') =
                   LET after == MakeMove(mem, board, move')
                   IN  View(after.mem, after.b)
       /\ (HumanToMove /\ io'.outcome = "rejected") =>
             /\ View(mem', board') = View(mem, board)
             /\ ply' = ply
             /\ move' = move
             /\ HumanToMove']_vars

\* After a move was applied, the human typed a well-formed board move that is
\* not legal, was asked about promotion, answered y and was turned down.
C17_Witness ==
    /\ move # NilMove
    /\ io.outcome = "rejected"
    /\ io.asked
    /\ io.answer = << "y" >>
    /\ HumanToMove

\* ------------------------------------------------------------------- C18
\* Both Kings are on board b and the side to move has no legal move.
Stuck(m, b) ==
    /\ Cardinality(KingsOnBoard(b)) = 2
    /\ LegalMoveSet(m, b) = {}

\* The step ends a pass of the loop on the AI's turn.
AIPassEnds == result # NoResult /\ result' = NoResult

\* C18: with both Kings on the board and no legal move for the side to move
\* the game is not over, and the loop goes on to the opponent's turn: a pass
\* on the AI's turn ends with the turn passed, and at the human's prompt
\* there is a line that ends the pass with the turn passed.
C18_StuckSidePasses ==
    /\ [](Stuck(mem, board) => IsGameOver(board) = [over |-> FALSE, winner |-> None])
    /\ []((Stuck(mem, board) /\ HumanToMove) =>
             \E pass \in HumanPasses : pass.outcome = "moved")
    /\ [][(Stuck(mem, board) /\ AIPassEnds) =>
             board'.CurrentTurn = Opponent(board.CurrentTurn)]_vars

\* A pass on the AI's turn in such a position ends with nothing changed: the
\* same side is to move on the same grid and hands.
StuckPassChangesNothing ==
    [][(Stuck(mem, board) /\ AIPassEnds) =>
          /\ io'.outcome = "nomove"
          /\ View(mem', board') = View(mem, board)
          /\ ply' = ply]_vars

\* ------------------------------------------------------------------- C19
Sliders == {Bishop, PromotedBishop, Rook, PromotedRook}

\* The directions a slider slides along, and those of its single extra steps.
SlideDirsOf(t) == IF t \in {Bishop, PromotedBishop} THEN DiagonalDirs ELSE OrthogonalDirs

ExtraDirsOf(t) ==
    CASE t = PromotedBishop -> OrthogonalDirs
      [] t = PromotedRook -> DiagonalDirs
      [] OTHER -> << >>

\* The cell n steps from (r, c) in direction d.
CellAt(r, c, d, n) == << r + n * d[1], c + n * d[2] >>

OwnerAt(b, rc) == b.Cells[rc[1]][rc[2]].Owner

\* The cells a slider on (r, c) may slide to: in bounds, not the mover's own,
\* and with every cell strictly between the source and the cell empty.
SlideTargets(b, r, c) ==
    {rc \in Rows \X Cols :
        \E d \in Range(SlideDirsOf(b.Cells[r][c].Type)), n \in 1..(BoardSize - 1) :
            /\ rc = CellAt(r, c, d, n)
            /\ OwnerAt(b, rc) # b.Cells[r][c].Owner
            /\ \A k \in 1..(n - 1) : OwnerAt(b, CellAt(r, c, d, k)) = None}

\* The cells a promoted slider on (r, c) may step to besides its slides.
ExtraTargets(b, r, c) ==
    {rc \in Rows \X Cols :
        \E d \in Range(ExtraDirsOf(b.Cells[r][c].Type)) :
            /\ rc = CellAt(r, c, d, 1)
            /\ OwnerAt(b, rc) # b.Cells[r][c].Owner}

\* C19: the moves generated for a Bishop, Rook, PromotedBishop or PromotedRook
\* of the side to move start on its cell and end exactly on the cells reached
\* along its sliding directions over empty cells only, up to and including
\* the first enemy piece and never an own piece, together with, for a
\* promoted slider, the neighbouring cells of its extra single steps.
C19_SlidersNeverJump ==
    \A rc \in CellsWith(board, Sliders, {board.CurrentTurn}) :
        LET moves == Range(GetPossibleMoves(board, rc[1], rc[2]))
        IN  /\ \A mv \in moves : ~mv.IsDrop /\ << mv.FromRow, mv.FromCol >> = rc
            /\ {<< mv.ToRow, mv.ToCol >> : mv \in moves}
                  = SlideTargets(board, rc[1], rc[2]) \cup ExtraTargets(board, rc[1], rc[2])

\* After a move was played, a slider of the side to move has a capture two or
\* more cells away and an own piece two or more cells away behind empty
\* cells, and a promoted slider of the side to move has an extra single step.
C19_Witness ==
    /\ ply > 0
    /\ \E rc \in CellsWith(board, Sliders, {board.CurrentTurn}) :
          /\ \E mv \in Range(GetPossibleMoves(board, rc[1], rc[2])) :
                /\ OwnerAt(board, << mv.ToRow, mv.ToCol >>) = Opponent(board.CurrentTurn)
                /\ \/ max(mv.ToRow - rc[1], rc[1] - mv.ToRow) >= 2
                   \/ max(mv.ToCol - rc[2], rc[2] - mv.ToCol) >= 2
          /\ \E d \in Range(SlideDirsOf(board.Cells[rc[1]][rc[2]].Type)),
                n \in 2..(BoardSize - 1) :
                /\ CellAt(rc[1], rc[2], d, n) \in Rows \X Cols
                /\ OwnerAt(board, CellAt(rc[1], rc[2], d, n)) = board.CurrentTurn
                /\ \A k \in 1..(n - 1) : OwnerAt(board, CellAt(rc[1], rc[2], d, k)) = None
    /\ \E rc \in CellsWith(board, {PromotedBishop, PromotedRook}, {board.CurrentTurn}) :
          ExtraTargets(board, rc[1], rc[2]) # {}

\* ------------------------------------------------------------------- C20
\* The unpromoted Pawns of a player in a column.
PawnsInColumn(b, col, player) == CellsWith(b, {Pawn}, {player}) \cap (Rows \X {col})

\* C20: no column ever holds two unpromoted Pawns of the same player.
C20_NoDoubledPawns ==
    \A col \in Cols, player \in {First, Second} :
        Cardinality(PawnsInColumn(board, col, player)) <= 1

\* A Pawn has just been dropped by a player who had an unpromoted Pawn on the
\* board: that player now has two, in different columns.
C20_Witness ==
    /\ move # NilMove
    /\ move.IsDrop
    /\ move.DropPiece = Pawn
    /\ Cardinality(CellsWith(board, {Pawn}, {Opponent(board.CurrentTurn)})) = 2

====
